---- MODULE Spec2Model ----
(***************************************************************************)
(* Verification model of asciidoc_backend/__init__.py (AsciiDocPlugin):    *)
(* the render cache and the page hooks, the renderer invoker, the          *)
(* table-of-contents builder, the three HTML normaliser passes, the        *)
(* slugifier and the on_files registration.                                *)
(*                                                                         *)
(* Text is a sequence of one-character strings.  HTML is a sequence of     *)
(* block records (the parsed document); the places where the code works on *)
(* the serialised markup (the regular expression of                        *)
(* _strip_conum_from_code, _escape) are modelled on the markup.            *)
(***************************************************************************)
EXTENDS Integers, Sequences, FiniteSets, TLC

VARIABLES
  \* ---- _slugify ----
  text,        \* the heading text handed to _slugify
  slug,        \* its result
  slugPc,      \* "in" before the call, "done" after
  \* ---- _build_toc ----
  tocHtml,     \* the html handed to _build_toc (a sequence of heading blocks)
  toc,         \* the Toc it returns: a forest of AnchorLink records
  tocPc,       \* "in" before the call, "done" after
  \* ---- the normaliser passes of on_page_content ----
  normHtml,    \* the html handed to the three passes
  fixed,       \* the html they return
  fixed2,      \* what they return when handed `fixed`
  normPc,      \* "in", "once" after one application, "twice" after two
  \* ---- _run_asciidoctor ----
  runFail,     \* self._fail for the call
  runCmd,      \* self._cmd for the call
  runOutcome,  \* what subprocess.run does: returns, or raises one of the two errors
  runResult,   \* what _run_asciidoctor did: the returned (html, meta) or the raise
  runPc,       \* "in" before the call, "done" after
  \* ---- the render cache and the page hooks ----
  fail,        \* self._fail (config fail_on_error)
  file,        \* file[p]: the st_mtime and the content digest of source p
  cache,       \* self._cache: cache[p] is <<>> or <<(mtime, sha1, rendered)>>
  last,        \* <<>> or <<the latest _render_adoc_cached call>>
  lastCall,    \* lastCall[p]: the latest call for p, <<>> once p changed since
  page,        \* page[pg]: what the hooks have set on, and returned for, pg
  aborted,     \* SystemExit was raised: the build is over
  \* ---- on_files ----
  docs,        \* the files below config.docs_dir, as paths relative to it
  dirUrls,     \* config.use_directory_urls
  files,       \* the Files collection: handed to on_files, then returned by it
  adocPages,   \* self._adoc_pages
  filesPc      \* "in" before on_files, "done" after

slugVars == <<text, slug, slugPc>>
tocVars == <<tocHtml, toc, tocPc>>
normVars == <<normHtml, fixed, fixed2, normPc>>
runVars == <<runFail, runCmd, runOutcome, runResult, runPc>>
cacheVars == <<fail, file, cache, last, lastCall, page, aborted>>
filesVars == <<docs, dirUrls, files, adocPages, filesPc>>
vars == <<text, slug, slugPc, tocHtml, toc, tocPc, normHtml, fixed, fixed2, normPc,
          runFail, runCmd, runOutcome, runResult, runPc,
          fail, file, cache, last, lastCall, page, aborted,
          docs, dirUrls, files, adocPages, filesPc>>

(***************************************************************************)
(* Generic helpers on sequences                                            *)
(***************************************************************************)
RECURSIVE SeqsUpTo(_, _)
SeqsUpTo(S, n) ==
  IF n = 0 THEN {<<>>}
  ELSE LET shorter == SeqsUpTo(S, n - 1)
       IN  shorter \cup {Append(s, x) : s \in {t \in shorter : Len(t) = n - 1}, x \in S}

Range(s) == {s[i] : i \in 1..Len(s)}

(***************************************************************************)
(* _slugify (lines 324-331)                                                *)
(***************************************************************************)
UpperCase == <<"A","B","C","D","E","F","G","H","I","J","K","L","M",
               "N","O","P","Q","R","S","T","U","V","W","X","Y","Z">>
LowerCase == <<"a","b","c","d","e","f","g","h","i","j","k","l","m",
               "n","o","p","q","r","s","t","u","v","w","x","y","z">>
Digits == {"0","1","2","3","4","5","6","7","8","9"}
\* str.strip() and str.isspace(): the ASCII whitespace characters
Whitespace == {" ", "\t", "\n", "\r", "\f"}

\* str.lower(), one character
Lower(c) ==
  IF \E i \in 1..26 : UpperCase[i] = c
  THEN LowerCase[CHOOSE i \in 1..26 : UpperCase[i] = c]
  ELSE c

\* str.strip()
RECURSIVE LStrip(_)
LStrip(s) == IF s # <<>> /\ Head(s) \in Whitespace THEN LStrip(Tail(s)) ELSE s
RECURSIVE RStrip(_)
RStrip(s) ==
  IF s # <<>> /\ s[Len(s)] \in Whitespace THEN RStrip(SubSeq(s, 1, Len(s) - 1)) ELSE s
Strip(s) == RStrip(LStrip(s))

\* _nonword = re.compile(r"[^0-9A-Za-z _-]+"): the characters the class keeps
WordChar(c) == c \in Digits \cup Range(UpperCase) \cup Range(LowerCase) \cup {" ", "_", "-"}
\* self._nonword.sub("", t)
NonwordSub(t) == SelectSeq(t, WordChar)

\* _spaces = re.compile(r"[ _]+"); self._spaces.sub("-", t): every maximal run
\* of space/underscore becomes one hyphen
RECURSIVE SpacesSub(_)
SpacesSub(t) ==
  IF t = <<>> THEN <<>>
  ELSE IF Head(t) \in {" ", "_"}
       THEN IF Len(t) > 1 /\ t[2] \in {" ", "_"}
            THEN SpacesSub(Tail(t))
            ELSE <<"-">> \o SpacesSub(Tail(t))
       ELSE <<Head(t)>> \o SpacesSub(Tail(t))

\* a plausible slip: the strip of the characters outside the class is left out
SlugifyNoStrip(t) == SpacesSub([i \in 1..Len(Strip(t)) |-> Lower(Strip(t)[i])])

_slugify(t) ==
  LET t1 == [i \in 1..Len(Strip(t)) |-> Lower(Strip(t)[i])]
      t2 == NonwordSub(t1)
  IN  SpacesSub(t2)

(***************************************************************************)
(* HTML documents.  An html string is modelled by its parse: the sequence  *)
(* of its blocks.  A heading block is                                      *)
(*   [t |-> "h", level, sect0, id, txt]                                    *)
(* with level the digit of the tag name, sect0 whether the class list      *)
(* holds "sect0", id the id attribute (<<>> when absent or empty) and txt  *)
(* the result of get_text(" ", strip=True).                                *)
(***************************************************************************)
Heading(level, sect0, id, txt) ==
  [t |-> "h", level |-> level, sect0 |-> sect0, id |-> id, txt |-> txt]

IsHeading(b) == b.t = "h"

(***************************************************************************)
(* _build_toc (lines 211-235)                                              *)
(***************************************************************************)
\* lines 214-217: the h1..h6 elements except the h1 carrying class sect0
TocHeadings(html) ==
  SelectSeq(html, LAMBDA b : IsHeading(b) /\ ~(b.level = 1 /\ b.sect0))

\* lines 218-220: a heading without id gets the slug of its text
WithId(h) == IF h.id = <<>> THEN [h EXCEPT !.id = _slugify(h.txt)] ELSE h

\* a plausible slip: '>' where the code has '>=' (equal levels would nest)
RECURSIVE StackPopStrict(_, _)
StackPopStrict(stack, level) ==
  IF stack # <<>> /\ stack[Len(stack)][1] > level
  THEN StackPopStrict(SubSeq(stack, 1, Len(stack) - 1), level)
  ELSE stack

\* lines 231-232: while stack and stack[-1][0] >= level: stack.pop()
RECURSIVE StackPop(_, _)
StackPop(stack, level) ==
  IF stack # <<>> /\ stack[Len(stack)][1] >= level
  THEN StackPop(SubSeq(stack, 1, Len(stack) - 1), level)
  ELSE stack

\* lines 228-234.  AnchorLink objects are shared between the stack and the
\* tree, so they live in a heap: nodes[n] is the n-th AnchorLink made, its
\* children the heap indices appended to it; items and the stack hold indices.
RECURSIVE TocLoop(_, _, _, _, _)
TocLoop(hs, k, nodes, items, stack) ==
  IF k > Len(hs) THEN [nodes |-> nodes, items |-> items]
  ELSE LET level  == hs[k].level
           n      == Len(nodes) + 1
           node   == [title |-> hs[k].txt, id |-> hs[k].id, children |-> <<>>]
           nodes1 == Append(nodes, node)
           popped == StackPop(stack, level)
           parent == popped[Len(popped)][2]
       IN  IF popped = <<>>
           THEN TocLoop(hs, k + 1, nodes1, Append(items, n), Append(popped, <<level, n>>))
           ELSE TocLoop(hs, k + 1,
                        [nodes1 EXCEPT ![parent].children = Append(@, n)],
                        items, Append(popped, <<level, n>>))

\* the AnchorLink at heap index n as a value, children included
RECURSIVE AnchorLink(_, _)
AnchorLink(nodes, n) ==
  [title |-> nodes[n].title, id |-> nodes[n].id,
   children |-> [c \in 1..Len(nodes[n].children) |-> AnchorLink(nodes, nodes[n].children[c])]]

\* line 235: Toc(items)
_build_toc(html) ==
  LET hs  == TocHeadings(html)
      hs1 == [i \in 1..Len(hs) |-> WithId(hs[i])]
      r   == TocLoop(hs1, 1, <<>>, <<>>, <<>>)
  IN  [i \in 1..Len(r.items) |-> AnchorLink(r.nodes, r.items[i])]

\* the anchor ids of a forest, in pre-order
RECURSIVE TocPreorder(_)
TocPreorder(forest) ==
  IF forest = <<>> THEN <<>>
  ELSE <<Head(forest).id>> \o TocPreorder(Head(forest).children) \o TocPreorder(Tail(forest))

\* the (id, parent id) pairs of a forest whose roots hang under `up`
RECURSIVE TocParents(_, _)
TocParents(forest, up) ==
  IF forest = <<>> THEN {}
  ELSE {<<Head(forest).id, up>>}
         \cup TocParents(Head(forest).children, Head(forest).id)
         \cup TocParents(Tail(forest), up)

(***************************************************************************)
(* _admonitions_to_material (lines 237-254)                                *)
(*                                                                         *)
(* A block matched by "div.admonitionblock" is                             *)
(*   [t |-> "admonitionblock", kind, titles, rest]                         *)
(* kind: the one name of `kinds` in its class list, "" when it has none;   *)
(* titles: the texts of the .title elements below `content` (the .content  *)
(* descendant, or the block itself), in document order; rest: the other    *)
(* children of `content`.  The block made in its place is                  *)
(*   [t |-> "admonition", kind, title, children]                           *)
(* the div with classes admonition and kind, its p.admonition-title and    *)
(* the children moved into it (a .title left over is the child             *)
(* <<"title", text>>).                                                     *)
(***************************************************************************)
Kinds == {"note", "tip", "important", "caution", "warning"}

\* str.capitalize() of the names of `kinds`
Capitalize(kind) ==
  CASE kind = "note" -> "Note"
    [] kind = "tip" -> "Tip"
    [] kind = "important" -> "Important"
    [] kind = "caution" -> "Caution"
    [] kind = "warning" -> "Warning"

\* lines 241-253, one block
AdmonitionToMaterial(blk) ==
  LET kind       == IF blk.kind \in Kinds THEN blk.kind ELSE "note"
      hasTitle   == blk.titles # <<>>
      title_text == IF hasTitle THEN Head(blk.titles) ELSE Capitalize(kind)
      left       == IF hasTitle THEN Tail(blk.titles) ELSE <<>>
  IN  [t |-> "admonition", kind |-> kind, title |-> title_text,
       children |-> [i \in 1..Len(left) |-> <<"title", left[i]>>] \o blk.rest]

\* lines 238-254: every block the selector matches is replaced
_admonitions_to_material(html) ==
  [i \in 1..Len(html) |->
     IF html[i].t = "admonitionblock" THEN AdmonitionToMaterial(html[i]) ELSE html[i]]

(***************************************************************************)
(* _callout_table_to_ol (lines 256-275)                                    *)
(*                                                                         *)
(* A block matched by "div.colist" is [t |-> "colist", children]; markup   *)
(* (the children of the div, of a td or of an li) is a sequence of items   *)
(*   [k |-> "text",  s |-> the text, rows |-> <<>>]                        *)
(*   [k |-> "table", s |-> "", rows |-> its tr's, each a sequence of td's, *)
(*                                      each td the markup inside it]      *)
(*   [k |-> "ol",    s |-> "", rows |-> its li's, each the markup inside]  *)
(***************************************************************************)
TextItem(s) == [k |-> "text", s |-> s, rows |-> <<>>]
TableItem(rows) == [k |-> "table", s |-> "", rows |-> rows]
OlItem(lis) == [k |-> "ol", s |-> "", rows |-> lis]

\* tr.find_all("td") and table.find_all("tr") search every descendant, in
\* document order: the tables inside a cell are searched too
RECURSIVE TdsInMarkup(_)
RECURSIVE TdsInRows(_)
RECURSIVE TdsInCells(_)
RECURSIVE TdsInLis(_)
TdsInMarkup(m) ==
  IF m = <<>> THEN <<>>
  ELSE (CASE Head(m).k = "table" -> TdsInRows(Head(m).rows)
          [] Head(m).k = "ol" -> TdsInLis(Head(m).rows)
          [] OTHER -> <<>>) \o TdsInMarkup(Tail(m))
TdsInRows(rows) ==
  IF rows = <<>> THEN <<>> ELSE TdsInCells(Head(rows)) \o TdsInRows(Tail(rows))
TdsInCells(cells) ==
  IF cells = <<>> THEN <<>>
  ELSE <<Head(cells)>> \o TdsInMarkup(Head(cells)) \o TdsInCells(Tail(cells))
TdsInLis(lis) ==
  IF lis = <<>> THEN <<>> ELSE TdsInMarkup(Head(lis)) \o TdsInLis(Tail(lis))

\* line 268: tds = tr.find_all("td")
FindAllTd(tr) == TdsInCells(tr)

RECURSIVE TrsInMarkup(_)
RECURSIVE TrsInRows(_)
RECURSIVE TrsInCells(_)
RECURSIVE TrsInLis(_)
TrsInMarkup(m) ==
  IF m = <<>> THEN <<>>
  ELSE (CASE Head(m).k = "table" -> TrsInRows(Head(m).rows)
          [] Head(m).k = "ol" -> TrsInLis(Head(m).rows)
          [] OTHER -> <<>>) \o TrsInMarkup(Tail(m))
TrsInRows(rows) ==
  IF rows = <<>> THEN <<>>
  ELSE <<Head(rows)>> \o TrsInCells(Head(rows)) \o TrsInRows(Tail(rows))
TrsInCells(cells) ==
  IF cells = <<>> THEN <<>> ELSE TrsInMarkup(Head(cells)) \o TrsInCells(Tail(cells))
TrsInLis(lis) ==
  IF lis = <<>> THEN <<>> ELSE TrsInMarkup(Head(lis)) \o TrsInLis(Tail(lis))

\* line 263: rows = table.find_all("tr")
FindAllTr(table) == TrsInRows(table.rows)

\* a plausible slip: the first cell is taken where the code takes tds[1]
TableToOlFirstCell(table) ==
  LET kept == SelectSeq(FindAllTr(table), LAMBDA tr : Len(FindAllTd(tr)) >= 2)
  IN  OlItem([i \in 1..Len(kept) |-> FindAllTd(kept[i])[1]])

\* lines 266-273: the ol made of the rows; tds[1] is the second element
TableToOl(table) ==
  LET kept == SelectSeq(FindAllTr(table), LAMBDA tr : Len(FindAllTd(tr)) >= 2)
  IN  OlItem([i \in 1..Len(kept) |-> FindAllTd(kept[i])[2]])

\* lines 260-274 on the markup below one div.colist: colist.find("table") is
\* the first table in document order; without rows it is left alone,
\* otherwise the ol takes its place.  The result is <<found, markup>>.
RECURSIVE ReplaceFirstTable(_)
RECURSIVE ReplaceFirstTableInLis(_)
ReplaceFirstTable(m) ==
  IF m = <<>> THEN <<FALSE, <<>>>>
  ELSE LET it == Head(m)
       IN  IF it.k = "table"
           THEN <<TRUE, <<(IF FindAllTr(it) = <<>> THEN it ELSE TableToOl(it))>> \o Tail(m)>>
           ELSE LET inner == IF it.k = "ol" THEN ReplaceFirstTableInLis(it.rows)
                                            ELSE <<FALSE, it.rows>>
                IN  IF inner[1]
                    THEN <<TRUE, <<[it EXCEPT !.rows = inner[2]]>> \o Tail(m)>>
                    ELSE LET rest == ReplaceFirstTable(Tail(m))
                         IN  <<rest[1], <<it>> \o rest[2]>>
ReplaceFirstTableInLis(lis) ==
  IF lis = <<>> THEN <<FALSE, <<>>>>
  ELSE LET first == ReplaceFirstTable(Head(lis))
       IN  IF first[1] THEN <<TRUE, <<first[2]>> \o Tail(lis)>>
           ELSE LET rest == ReplaceFirstTableInLis(Tail(lis))
                IN  <<rest[1], <<Head(lis)>> \o rest[2]>>

\* lines 258-275: every div.colist
_callout_table_to_ol(html) ==
  [i \in 1..Len(html) |->
     IF html[i].t = "colist"
     THEN [html[i] EXCEPT !.children = ReplaceFirstTable(@)[2]]
     ELSE html[i]]

(***************************************************************************)
(* _strip_conum_from_code (lines 277-299)                                  *)
(*                                                                         *)
(* A "div.listingblock pre" is [t |-> "listingblock", pre]; pre is the     *)
(* sequence of the nodes of the listing:                                   *)
(*   [k |-> "t", s, data |-> FALSE, aria |-> FALSE]   text, one lexeme of  *)
(*        the pattern of line 294: " " or "\t", "\n", a callout "(1)" or   *)
(*        "<1>", or any other character ("x")                              *)
(*   [k |-> "conum", s, data, aria]   an element of class conum, s its     *)
(*        text, data whether it has a data-value attribute, aria whether   *)
(*        it has aria-hidden="true"                                        *)
(*   [k |-> "b", s, data |-> FALSE, aria |-> FALSE]   the <b>(n)</b> the   *)
(*        renderer puts after an <i class="conum" data-value="n">          *)
(***************************************************************************)
TextNode(s) == [k |-> "t", s |-> s, data |-> FALSE, aria |-> FALSE]
ConumNode(s, data) == [k |-> "conum", s |-> s, data |-> data, aria |-> FALSE]
BoldNode(s) == [k |-> "b", s |-> s, data |-> FALSE, aria |-> FALSE]

\* lines 287-288: .conum:not([data-value]) is decomposed
DecomposeFallback(pre) == SelectSeq(pre, LAMBDA n : ~(n.k = "conum" /\ ~n.data))

\* lines 289-291: .conum[data-value] is cleared and marked aria-hidden
ClearMarkers(pre) ==
  [i \in 1..Len(pre) |->
     IF pre[i].k = "conum" /\ pre[i].data
     THEN [pre[i] EXCEPT !.s = "", !.aria = TRUE]
     ELSE pre[i]]

\* line 293: pre.decode_contents().  Text is written with & < > as entities,
\* so the text <1> is written &lt;1&gt;; an element is written as its tag
\* pair around its text and is one token of the markup here.
DecodeContents(pre) ==
  [i \in 1..Len(pre) |->
     IF pre[i].k = "t" /\ pre[i].s = "<1>" THEN [pre[i] EXCEPT !.s = "&lt;1&gt;"] ELSE pre[i]]

\* line 297: BeautifulSoup(cleaned, "html.parser"): entities become text again
ParseContents(raw) ==
  [i \in 1..Len(raw) |->
     IF raw[i].k = "t" /\ raw[i].s = "&lt;1&gt;" THEN [raw[i] EXCEPT !.s = "<1>"] ELSE raw[i]]

\* the pattern of line 294 on the markup: [ \t]*  (\(\d+\)|<\d+>)  [ \t]*  (?=\n|$)
IsBlank(tok) == tok.k = "t" /\ tok.s \in {" ", "\t"}
IsCallout(tok) == tok.k = "t" /\ tok.s \in {"(1)", "<1>"}
IsNewline(tok) == tok.k = "t" /\ tok.s = "\n"

RECURSIVE SkipBlanks(_, _)
SkipBlanks(raw, i) == IF i <= Len(raw) /\ IsBlank(raw[i]) THEN SkipBlanks(raw, i + 1) ELSE i

\* the position after the match that starts at i, 0 when none starts there
MatchEnd(raw, i) ==
  LET j == SkipBlanks(raw, i)
  IN  IF j <= Len(raw) /\ IsCallout(raw[j])
      THEN LET m == SkipBlanks(raw, j + 1)
           IN  IF m > Len(raw) \/ IsNewline(raw[m]) THEN m ELSE 0
      ELSE 0

\* line 294: re.sub(pattern, "", raw, flags=re.M): the matches, leftmost
\* first and not overlapping, are removed
RECURSIVE ReSub(_, _)
ReSub(raw, i) ==
  IF i > Len(raw) THEN <<>>
  ELSE IF MatchEnd(raw, i) # 0 THEN ReSub(raw, MatchEnd(raw, i))
       ELSE <<raw[i]>> \o ReSub(raw, i + 1)

\* lines 286-297, one pre
StripConum(pre) ==
  LET pre1    == ClearMarkers(DecomposeFallback(pre))
      raw     == DecodeContents(pre1)
      cleaned == ReSub(raw, 1)
  IN  IF cleaned # raw THEN ParseContents(cleaned) ELSE pre1

_strip_conum_from_code(html) ==
  [i \in 1..Len(html) |->
     IF html[i].t = "listingblock"
     THEN [html[i] EXCEPT !.pre = StripConum(@)]
     ELSE html[i]]

\* lines 164-166 of on_page_content: the three passes in their order
Normalizer(html) ==
  _strip_conum_from_code(_callout_table_to_ol(_admonitions_to_material(html)))

(***************************************************************************)
(* _escape (lines 321-322) and _run_asciidoctor (lines 184-209)            *)
(***************************************************************************)
\* str.replace(old, new) for a one-character old
RECURSIVE Replace(_, _, _)
Replace(s, old, new) ==
  IF s = <<>> THEN <<>>
  ELSE (IF Head(s) = old THEN new ELSE <<Head(s)>>) \o Replace(Tail(s), old, new)

\* line 322
_escape(s) ==
  Replace(Replace(Replace(s, "&", <<"&","a","m","p",";">>),
                  "<", <<"&","l","t",";">>),
          ">", <<"&","g","t",";">>)

\* line 197; the two fixed parts of the message are one element each
NotFoundMsg(cmd) ==
  <<"Asciidoctor not found: '">> \o cmd \o <<"'. Install with: gem install asciidoctor">>
\* lines 202-203; src, a path, is one element
FailedMsg(src, stderr) == <<"Asciidoctor failed for ", src, ":", "\n">> \o stderr

\* the html f"<pre>{...}</pre>" of lines 200 and 206: one pre block
PreBlock(s) == [t |-> "pre", s |-> s]

\* _extract_meta_from_html (lines 301-310), on the blocks of the document:
\* a heading, [t |-> "title", txt] or [t |-> "meta", name, content]
\* soup.find(...): the first match, <<>> for None
FirstOf(hits) == IF hits = <<>> THEN <<>> ELSE <<Head(hits)>>
_extract_meta_from_html(html) ==
  LET sect0 == FirstOf(SelectSeq(html, LAMBDA b : IsHeading(b) /\ b.level = 1 /\ b.sect0))
      h1    == FirstOf(SelectSeq(html, LAMBDA b : IsHeading(b) /\ b.level = 1))
      title == FirstOf(SelectSeq(html, LAMBDA b : b.t = "title"))
      title_el == IF sect0 # <<>> THEN sect0 ELSE IF h1 # <<>> THEN h1 ELSE title
      desc  == FirstOf(SelectSeq(html, LAMBDA b : b.t = "meta" /\ b.name = "description"))
      keys  == (IF title_el # <<>> THEN {"title"} ELSE {})
                 \cup (IF desc # <<>> /\ desc[1].content # <<>> THEN {"description"} ELSE {})
  IN  [k \in keys |-> IF k = "title" THEN title_el[1].txt ELSE desc[1].content]

\* what a call returns or raises: (html, meta) when raised is FALSE, the
\* SystemExit message when it is TRUE
Returned(html, meta) == [raised |-> FALSE, msg |-> <<>>, html |-> html, meta |-> meta]
SystemExit(msg) == [raised |-> TRUE, msg |-> msg, html |-> <<>>, meta |-> <<>>]

\* what subprocess.run (line 195) does: proc with its stdout decoded,
\* FileNotFoundError, or CalledProcessError with its stderr decoded
ProcOk(html) == [kind |-> "ok", html |-> html, stderr |-> <<>>]
ProcNotFound == [kind |-> "FileNotFoundError", html |-> <<>>, stderr |-> <<>>]
ProcFailed(stderr) == [kind |-> "CalledProcessError", html |-> <<>>, stderr |-> stderr]

\* a plausible slip: the placeholder is returned whatever self._fail says
RunAsciidoctorNeverFatal(src, cmd, failFlag, outcome) ==
  CASE outcome.kind = "FileNotFoundError" ->
         Returned(<<PreBlock(_escape(NotFoundMsg(cmd)))>>, <<>>)
    [] outcome.kind = "CalledProcessError" ->
         Returned(<<PreBlock(_escape(FailedMsg(src, outcome.stderr)))>>, <<>>)
    [] OTHER -> Returned(outcome.html, _extract_meta_from_html(outcome.html))

\* lines 194-209
_run_asciidoctor(src, cmd, failFlag, outcome) ==
  CASE outcome.kind = "FileNotFoundError" ->
         LET msg == NotFoundMsg(cmd)
         IN  IF failFlag THEN SystemExit(msg)
             ELSE Returned(<<PreBlock(_escape(msg))>>, <<>>)
    [] outcome.kind = "CalledProcessError" ->
         LET msg == FailedMsg(src, outcome.stderr)
         IN  IF failFlag THEN SystemExit(msg)
             ELSE Returned(<<PreBlock(_escape(msg))>>, <<>>)
    [] OTHER -> Returned(outcome.html, _extract_meta_from_html(outcome.html))

(***************************************************************************)
(* _render_adoc_cached (lines 171-182)                                     *)
(***************************************************************************)
Rendered(html, tocOf, meta) == [html |-> html, toc |-> tocOf, meta |-> meta]

\* the cache entry (mtime, sha1, rendered) of line 181
Entry(mtime, sha1, rendered) == [mtime |-> mtime, sha1 |-> sha1, rendered |-> rendered]

\* a plausible slip: the digest is not compared
CacheValidMtimeOnly(cached, mtime, sha1) ==
  cached # <<>> /\ cached[1].mtime = mtime

\* line 176: cached and cached[0] == mtime and cached[1] == sha1
CacheValid(cached, mtime, sha1) ==
  cached # <<>> /\ cached[1].mtime = mtime /\ cached[1].sha1 = sha1

\* a plausible slip: a placeholder of a failed render is not stored
StoreUnlessPlaceholder(c, key, mtime, sha1, rendered) ==
  IF rendered.html # <<>> /\ rendered.html[1].t = "pre" THEN c
  ELSE [c EXCEPT ![key] = <<Entry(mtime, sha1, rendered)>>]

\* line 181: self._cache[key] = (mtime, sha1, rendered)
Store(c, key, mtime, sha1, rendered) ==
  [c EXCEPT ![key] = <<Entry(mtime, sha1, rendered)>>]

\* lines 171-182.  c is self._cache, f the files on disk, outcome what the
\* renderer does if it is run.  The result tells whether the renderer was
\* invoked, whether SystemExit came out, the Rendered returned (<<>> when
\* none) and self._cache afterwards.
_render_adoc_cached(src_path, c, f, cmd, failFlag, outcome) ==
  LET mtime  == f[src_path].mtime
      sha1   == f[src_path].sha1
      cached == c[src_path]
  IN  IF CacheValid(cached, mtime, sha1)
      THEN [invoked |-> FALSE, raised |-> FALSE, rendered |-> <<cached[1].rendered>>,
            cache |-> c]
      ELSE LET ran == _run_asciidoctor(src_path, cmd, failFlag, outcome)
           IN  IF ran.raised
               THEN [invoked |-> TRUE, raised |-> TRUE, rendered |-> <<>>, cache |-> c]
               ELSE LET rendered == Rendered(ran.html, _build_toc(ran.html), ran.meta)
                    IN  [invoked |-> TRUE, raised |-> FALSE, rendered |-> <<rendered>>,
                         cache |-> Store(c, src_path, mtime, sha1, rendered)]

(***************************************************************************)
(* on_files (lines 72-125)                                                 *)
(*                                                                         *)
(* A path relative to docs_dir is [dirs, stem, ext]: the directories above *)
(* the file, and its name split at the last dot (ext holds the dot).  The  *)
(* string of the code is dirs, stem and ext joined with "/".               *)
(***************************************************************************)
RelPath(dirs, stem, ext) == [dirs |-> dirs, stem |-> stem, ext |-> ext]

\* line 78 and the pattern of line 82: the name ends in ".adoc"
EndsWithAdoc(rel) == rel.ext = ".adoc"

\* line 84: rel.startswith(("partials/", "snippets/", "modules/"))
StartsWithReserved(rel) ==
  rel.dirs # <<>> /\ rel.dirs[1] \in {"partials", "snippets", "modules"}

\* lines 100-118: dest_path and url, as path components; a url ending in "/"
\* ends in the empty component
DestAndUrl(rel, use_directory_urls) ==
  LET stem   == rel.stem
      parent == rel.dirs
  IN  IF stem = "index"
      THEN IF parent = <<>>
           THEN [dest_path |-> <<"index.html">>, url |-> <<>>]
           ELSE [dest_path |-> parent \o <<"index.html">>, url |-> parent \o <<"">>]
      ELSE IF use_directory_urls
           THEN [dest_path |-> parent \o <<stem, "index.html">>, url |-> parent \o <<stem, "">>]
           ELSE [dest_path |-> parent \o <<stem \o ".html">>, url |-> parent \o <<stem \o ".html">>]

\* a File of the collection: its src_path, whether it is a documentation
\* page, and where it goes
File(rel, isPage, where) ==
  [src_path |-> rel, is_documentation_page |-> isPage,
   dest_path |-> where.dest_path, url |-> where.url]

\* lines 77-79: the .adoc files MkDocs took for media are removed
RemoveAdoc(fs) == SelectSeq(fs, LAMBDA f : ~EndsWithAdoc(f.src_path))

\* lines 82-123: the files rglob("*.adoc") yields, in the order `found`
RECURSIVE AddAdocPages(_, _, _, _)
AddAdocPages(found, fs, pages, use_directory_urls) ==
  IF found = <<>> THEN [files |-> fs, pages |-> pages]
  ELSE LET rel == Head(found)
       IN  IF StartsWithReserved(rel)
           THEN AddAdocPages(Tail(found), fs, pages, use_directory_urls)
           ELSE AddAdocPages(Tail(found),
                             Append(fs, File(rel, TRUE, DestAndUrl(rel, use_directory_urls))),
                             pages \cup {rel}, use_directory_urls)

(***************************************************************************)
(* Specification of _slugify: a heading text is drawn, _slugify is applied *)
(***************************************************************************)
MaxText == 4
\* the characters texts are drawn from: a capital, a small letter, a digit,
\* the three separators of the patterns, a punctuation mark and a tab
TextAlphabet == {"A", "b", "1", " ", "_", "-", "!", "\t"}

SlugIdle == text = <<>> /\ slug = <<>> /\ slugPc = "idle"
TocIdle == tocHtml = <<>> /\ toc = <<>> /\ tocPc = "idle"
NormIdle == normHtml = <<>> /\ fixed = <<>> /\ fixed2 = <<>> /\ normPc = "idle"
RunIdle ==
  /\ runFail = FALSE /\ runCmd = <<>> /\ runOutcome = <<>> /\ runResult = <<>>
  /\ runPc = "idle"
CacheIdle ==
  /\ fail = FALSE /\ file = <<>> /\ cache = <<>> /\ last = <<>> /\ lastCall = <<>>
  /\ page = <<>> /\ aborted = FALSE
FilesIdle ==
  /\ docs = {} /\ dirUrls = FALSE /\ files = <<>> /\ adocPages = {} /\ filesPc = "idle"

SlugInit ==
  /\ text \in SeqsUpTo(TextAlphabet, MaxText)
  /\ slug = <<>>
  /\ slugPc = "in"
  /\ TocIdle /\ NormIdle /\ RunIdle /\ CacheIdle /\ FilesIdle

Slugify ==
  /\ slugPc = "in"
  /\ slug' = _slugify(text)
  /\ slugPc' = "done"
  /\ UNCHANGED <<text, tocVars, normVars, runVars, cacheVars, filesVars>>

SlugNext == Slugify
SpecSlug == SlugInit /\ [][SlugNext]_vars

(***************************************************************************)
(* Specification of _build_toc: a document of section headings with levels *)
(* 1..6, with or without the document title in front, is drawn and         *)
(* _build_toc is applied.  Every heading carries an id of its own (its     *)
(* position), which tells the nodes of the forest apart.                   *)
(***************************************************************************)
MaxHeadings == 4
PosDigit == <<"1", "2", "3", "4", "5", "6", "7", "8", "9">>
SectionId(i) == <<"s", PosDigit[i]>>
DocTitle == Heading(1, TRUE, <<>>, <<"D", "o", "c">>)
SectionsOf(levels) ==
  [i \in 1..Len(levels) |-> Heading(levels[i], FALSE, SectionId(i), <<"T", PosDigit[i]>>)]

TocInit ==
  /\ \E levels \in SeqsUpTo(1..6, MaxHeadings), titled \in BOOLEAN :
       tocHtml = (IF titled THEN <<DocTitle>> ELSE <<>>) \o SectionsOf(levels)
  /\ toc = <<>>
  /\ tocPc = "in"
  /\ SlugIdle /\ NormIdle /\ RunIdle /\ CacheIdle /\ FilesIdle

BuildToc ==
  /\ tocPc = "in"
  /\ toc' = _build_toc(tocHtml)
  /\ tocPc' = "done"
  /\ UNCHANGED <<tocHtml, slugVars, normVars, runVars, cacheVars, filesVars>>

TocNext == BuildToc
SpecToc == TocInit /\ [][TocNext]_vars

(***************************************************************************)
(* Specification of the normaliser: a document of one block is drawn (an   *)
(* admonition, a callout list or a listing, in the renderer's markup or    *)
(* already in the target markup) and the three passes are applied to it,   *)
(* then to their own output.                                               *)
(***************************************************************************)
MaxTitles == 2   \* .title elements below the content of an admonition
MaxRows == 2     \* rows of a callout table
MaxCells == 2    \* cells of a row
MaxPre == 3      \* nodes of a listing

AdmonitionBlocks ==
  {[t |-> "admonitionblock", kind |-> kind, titles |-> titles, rest |-> rest] :
     kind \in {"note", "warning", ""},
     titles \in SeqsUpTo({"Heads up"}, MaxTitles),
     rest \in {<<>>, <<<<"p", "Body">>>>}}
  \cup {[t |-> "admonition", kind |-> "tip", title |-> "Tip", children |-> <<<<"p", "Body">>>>]}

\* the first cell of a row holds the callout number; a later cell holds the
\* explanation, which may carry an attached table
NestedTable == TableItem(<<<< <<TextItem("key")>>, <<TextItem("value")>> >>>>)
FirstCells == {<<TextItem("1")>>, <<TextItem("2")>>}
LaterCells == {<<TextItem("Install deps")>>, <<TextItem("Run build")>>,
               <<TextItem("See"), NestedTable>>}
CalloutRows ==
  {<<>>} \cup {<<c>> \o later : c \in FirstCells, later \in SeqsUpTo(LaterCells, MaxCells - 1)}
ColistBlocks ==
  {[t |-> "colist", children |-> <<TableItem(rows)>>] : rows \in SeqsUpTo(CalloutRows, MaxRows)}
  \cup {[t |-> "colist", children |-> <<OlItem(<<<<TextItem("Install deps")>>>>)>>],
        [t |-> "colist", children |-> <<TextItem("no list")>>]}

PreNodes ==
  {TextNode("x"), TextNode(" "), TextNode("\n"), TextNode("(1)"), TextNode("<1>"),
   ConumNode("(1)", FALSE), ConumNode("", TRUE), BoldNode("(1)")}
ListingBlocks ==
  {[t |-> "listingblock", pre |-> pre] : pre \in SeqsUpTo(PreNodes, MaxPre)}

NormInit ==
  /\ \E blk \in AdmonitionBlocks \cup ColistBlocks \cup ListingBlocks : normHtml = <<blk>>
  /\ fixed = <<>>
  /\ fixed2 = <<>>
  /\ normPc = "in"
  /\ SlugIdle /\ TocIdle /\ RunIdle /\ CacheIdle /\ FilesIdle

Normalize ==
  /\ normPc = "in"
  /\ fixed' = Normalizer(normHtml)
  /\ normPc' = "once"
  /\ UNCHANGED <<normHtml, fixed2, slugVars, tocVars, runVars, cacheVars, filesVars>>

NormalizeAgain ==
  /\ normPc = "once"
  /\ fixed2' = Normalizer(fixed)
  /\ normPc' = "twice"
  /\ UNCHANGED <<normHtml, fixed, slugVars, tocVars, runVars, cacheVars, filesVars>>

NormNext == Normalize \/ NormalizeAgain
SpecNorm == NormInit /\ [][NormNext]_vars

(***************************************************************************)
(* Specification of _run_asciidoctor: the flag, the command and what the   *)
(* child process does are drawn, and _run_asciidoctor is applied.          *)
(***************************************************************************)
MaxStderr == 2    \* characters of the renderer's diagnostic output
MaxCmd == 2       \* characters of the configured command
MsgAlphabet == {"e", "&", "<", ">"}
SectIdIntro == <<"_", "i", "n", "t", "r", "o">>
Intro == <<"I", "n", "t", "r", "o">>
\* what the renderer writes for "= Doc" / "== Intro": with section ids ...
DocWithIds == <<DocTitle, Heading(2, FALSE, SectIdIntro, Intro)>>
\* ... and with the sectids attribute unset, followed by a listing
DocWithoutIds ==
  <<Heading(2, FALSE, <<>>, Intro),
    [t |-> "listingblock", pre |-> <<TextNode("x"), TextNode(" "), TextNode("(1)")>>]>>
Docs == {DocWithIds, DocWithoutIds}
RunSrc == "index.adoc"

RunInit ==
  /\ runFail \in BOOLEAN
  /\ runCmd \in SeqsUpTo(MsgAlphabet, MaxCmd)
  /\ runOutcome \in {ProcOk(d) : d \in Docs} \cup {ProcNotFound}
                      \cup {ProcFailed(e) : e \in SeqsUpTo(MsgAlphabet, MaxStderr)}
  /\ runResult = <<>>
  /\ runPc = "in"
  /\ SlugIdle /\ TocIdle /\ NormIdle /\ CacheIdle /\ FilesIdle

RunAsciidoctor ==
  /\ runPc = "in"
  /\ runResult' = _run_asciidoctor(RunSrc, runCmd, runFail, runOutcome)
  /\ runPc' = "done"
  /\ UNCHANGED <<runFail, runCmd, runOutcome, slugVars, tocVars, normVars, cacheVars, filesVars>>

RunNext == RunAsciidoctor
SpecRun == RunInit /\ [][RunNext]_vars

(***************************************************************************)
(* Specification of the plugin during builds: on_config has run, the host  *)
(* calls on_page_markdown and then on_page_content for each page, the      *)
(* source files change in between, and a rebuild starts with on_config.    *)
(***************************************************************************)
MaxMtime == 2     \* the st_mtime values a file takes
MaxContent == 2   \* the contents (hence digests) a file takes
AdocPages == {"index.adoc"}          \* the keys of self._adoc_pages
Pages == AdocPages \cup {"about.md"}
Cmd == <<"a", "&">>                   \* self._cmd
\* what the child process may do when it is run
Outcomes == {ProcOk(d) : d \in Docs} \cup {ProcNotFound, ProcFailed(<<"<", "e">>)}
\* the html and the table of contents the host has for a Markdown page
HostHtml == <<Heading(1, FALSE, <<"a", "b", "o", "u", "t">>, <<"A", "b", "o", "u", "t">>)>>
NewPage == [stage |-> "new", meta |-> <<>>, toc |-> <<>>, content |-> <<>>]

\* on_config (lines 44-70): line 45 empties the cache
Init ==
  /\ fail \in BOOLEAN
  /\ file \in [AdocPages -> [mtime : 1..MaxMtime, sha1 : 1..MaxContent]]
  /\ cache = [p \in AdocPages |-> <<>>]
  /\ last = <<>>
  /\ lastCall = [p \in AdocPages |-> <<>>]
  /\ page = [pg \in Pages |-> NewPage]
  /\ aborted = FALSE
  /\ SlugIdle /\ TocIdle /\ NormIdle /\ RunIdle /\ FilesIdle

Others == <<slugVars, tocVars, normVars, runVars, filesVars>>

\* the record of one _render_adoc_cached call: the entry and the file as the
\* call found them, what the call did, and the call before it for the same
\* path when the file did not change in between
CallRecord(p, r, outcome) ==
  [path |-> p, entry |-> cache[p], mtime |-> file[p].mtime, sha1 |-> file[p].sha1,
   kind |-> outcome.kind, invoked |-> r.invoked, raised |-> r.raised,
   rendered |-> r.rendered, before |-> lastCall[p]]

\* the effect of a call on the cache and on the records of calls
Called(p, r, outcome) ==
  /\ cache' = r.cache
  /\ last' = <<CallRecord(p, r, outcome)>>
  /\ lastCall' = [lastCall EXCEPT ![p] = <<[CallRecord(p, r, outcome) EXCEPT !.before = <<>>]>>]
  /\ aborted' = r.raised

\* on_page_markdown (lines 148-155)
OnPageMarkdown(pg) ==
  /\ ~aborted
  /\ page[pg].stage = "new"
  /\ IF pg \notin AdocPages
     THEN /\ page' = [page EXCEPT ![pg].stage = "markdown"]
          /\ UNCHANGED <<cache, last, lastCall, aborted>>
     ELSE \E outcome \in Outcomes :
            LET r == _render_adoc_cached(pg, cache, file, Cmd, fail, outcome)
            IN  /\ Called(pg, r, outcome)
                /\ page' = IF r.raised THEN page
                           ELSE [page EXCEPT ![pg].stage = "markdown",
                                             ![pg].meta = r.rendered[1].meta]
  /\ UNCHANGED <<fail, file, Others>>

\* on_page_content (lines 157-167)
OnPageContent(pg) ==
  /\ ~aborted
  /\ page[pg].stage = "markdown"
  /\ IF pg \notin AdocPages
     THEN /\ page' = [page EXCEPT ![pg].stage = "content", ![pg].content = HostHtml]
          /\ UNCHANGED <<cache, last, lastCall, aborted>>
     ELSE \E outcome \in Outcomes :
            LET r == _render_adoc_cached(pg, cache, file, Cmd, fail, outcome)
            IN  /\ Called(pg, r, outcome)
                /\ page' = IF r.raised THEN page
                           ELSE [page EXCEPT ![pg].stage = "content",
                                             ![pg].toc = r.rendered[1].toc,
                                             ![pg].content = Normalizer(r.rendered[1].html)]
  /\ UNCHANGED <<fail, file, Others>>

\* the source file is touched: a new st_mtime, the same bytes
Touch(p) ==
  /\ ~aborted
  /\ \E m \in 1..MaxMtime :
       /\ m # file[p].mtime
       /\ file' = [file EXCEPT ![p].mtime = m]
  /\ lastCall' = [lastCall EXCEPT ![p] = <<>>]
  /\ UNCHANGED <<fail, cache, last, page, aborted, Others>>

\* the source file gets other bytes within the granularity of st_mtime
Rewrite(p) ==
  /\ ~aborted
  /\ \E d \in 1..MaxContent :
       /\ d # file[p].sha1
       /\ file' = [file EXCEPT ![p].sha1 = d]
  /\ lastCall' = [lastCall EXCEPT ![p] = <<>>]
  /\ UNCHANGED <<fail, cache, last, page, aborted, Others>>

\* a rebuild: on_config (line 45) empties the cache, the host makes new pages
OnConfig ==
  /\ ~aborted
  /\ \A pg \in Pages : page[pg].stage = "content"
  /\ cache' = [p \in AdocPages |-> <<>>]
  /\ lastCall' = [p \in AdocPages |-> <<>>]
  /\ last' = <<>>
  /\ page' = [pg \in Pages |-> NewPage]
  /\ UNCHANGED <<fail, file, aborted, Others>>

Next ==
  \/ \E pg \in Pages : OnPageMarkdown(pg)
  \/ \E pg \in Pages : OnPageContent(pg)
  \/ \E p \in AdocPages : Touch(p)
  \/ \E p \in AdocPages : Rewrite(p)
  \/ OnConfig
Spec == Init /\ [][Next]_vars

(***************************************************************************)
(* Specification of on_files: a docs directory is drawn, the host hands    *)
(* on_files the collection it made of it, and on_files returns.            *)
(***************************************************************************)
\* the paths a docs directory may hold, in the order directories list them
Candidates ==
  << RelPath(<<>>, "index", ".adoc"),
     RelPath(<<>>, "about", ".md"),
     RelPath(<<>>, "partials", ".adoc"),
     RelPath(<<"guide">>, "intro", ".adoc"),
     RelPath(<<"guide", "partials">>, "note", ".adoc"),
     RelPath(<<"partials">>, "footer", ".adoc"),
     RelPath(<<"snippets">>, "code", ".adoc"),
     RelPath(<<"modules", "ROOT">>, "nav", ".adoc"),
     RelPath(<<"img">>, "logo", ".png") >>

\* the collection the host builds: every file, a page when it is Markdown
HostFiles(present, use_directory_urls) ==
  LET all == SelectSeq(Candidates, LAMBDA rel : rel \in present)
  IN  [i \in 1..Len(all) |->
         IF all[i].ext = ".md"
         THEN File(all[i], TRUE, DestAndUrl(all[i], use_directory_urls))
         ELSE File(all[i], FALSE,
                   [dest_path |-> all[i].dirs \o <<all[i].stem \o all[i].ext>>,
                    url |-> all[i].dirs \o <<all[i].stem \o all[i].ext>>])]

FilesInit ==
  /\ docs \in SUBSET Range(Candidates)
  /\ dirUrls \in BOOLEAN
  /\ files = HostFiles(docs, dirUrls)
  /\ adocPages = {}
  /\ filesPc = "in"
  /\ SlugIdle /\ TocIdle /\ NormIdle /\ RunIdle /\ CacheIdle

OnFiles ==
  /\ filesPc = "in"
  /\ LET found == SelectSeq(Candidates, LAMBDA rel : rel \in docs /\ EndsWithAdoc(rel))
         r     == AddAdocPages(found, RemoveAdoc(files), adocPages, dirUrls)
     IN  /\ files' = r.files
         /\ adocPages' = r.pages
  /\ filesPc' = "done"
  /\ UNCHANGED <<docs, dirUrls, slugVars, tocVars, normVars, runVars, cacheVars>>

FilesNext == OnFiles
SpecFiles == FilesInit /\ [][FilesNext]_vars

(***************************************************************************)
(* Properties                                                              *)
(***************************************************************************)
LowerAlnum == Digits \cup Range(LowerCase)
Alnum == Digits \cup Range(LowerCase) \cup Range(UpperCase)
AlnumOf(s) == SelectSeq(s, LAMBDA c : c \in Alnum)
LowerAll(s) == [i \in 1..Len(s) |-> Lower(s[i])]
NoDoubleHyphen(s) == \A i \in 1..(Len(s) - 1) : ~(s[i] = "-" /\ s[i + 1] = "-")
GettingStartedFast ==
  <<"G","e","t","t","i","n","g"," ","S","t","a","r","t","e","d",","," ","F","a","s","t","!">>
getting_started_fast ==
  <<"g","e","t","t","i","n","g","-","s","t","a","r","t","e","d","-","f","a","s","t">>
SlugExamples ==
  /\ _slugify(GettingStartedFast) = getting_started_fast
  /\ _slugify(<<"!", ",", "?", "!">>) = <<>>

\* C8 as stated: the slug of every text holds only lowercase alphanumerics
\* and single hyphens between words (none doubled, none leading or trailing),
\* "Getting Started, Fast!" gives getting-started-fast and a text of
\* punctuation gives the empty slug.
C8_SlugSingleHyphensBetweenWords ==
  slugPc = "done" =>
    /\ Range(slug) \subseteq LowerAlnum \cup {"-"}
    /\ NoDoubleHyphen(slug)
    /\ slug # <<>> => (slug[1] # "-" /\ slug[Len(slug)] # "-")
    /\ SlugExamples

\* C8 amended: the slug holds only lowercase alphanumerics and hyphens, keeps
\* the text's ASCII alphanumerics (lowercased) in their order, has a hyphen
\* only where the text had a space, underscore or hyphen, and has no doubled
\* hyphen when the text itself holds no hyphen; the two examples hold.
C8_SlugLowerAlnumAndHyphens ==
  slugPc = "done" =>
    /\ Range(slug) \subseteq LowerAlnum \cup {"-"}
    /\ AlnumOf(slug) = LowerAll(AlnumOf(text))
    /\ ("-" \in Range(slug) => Range(text) \cap {" ", "_", "-"} # {})
    /\ ("-" \notin Range(text) => NoDoubleHyphen(slug))
    /\ (Range(text) \cap (Alnum \cup {" ", "_", "-"}) = {} => slug = <<>>)
    /\ SlugExamples

\* C8 witness: a text with a capital, punctuation and a space has been
\* slugified to two words joined by one hyphen
C8_Witness ==
  /\ slugPc = "done"
  /\ text = <<"A", "!", " ", "b">>
  /\ slug = <<"a", "-", "b">>

TocSections == TocHeadings(tocHtml)
\* the id of the nearest heading before position i of strictly lower level,
\* <<>> (the root) when there is none
NearestLower(hs, i) ==
  LET lower == {j \in 1..(i - 1) : hs[j].level < hs[i].level}
  IN  IF lower = {} THEN <<>>
      ELSE hs[CHOOSE j \in lower : \A k \in lower : k <= j].id
TocExample == <<DocTitle>> \o SectionsOf(<<2, 3, 2, 4>>)

\* C4: the forest's pre-order is the heading order, each node hangs under the
\* nearest preceding heading of strictly lower level (a root when none), so no
\* node is made for a skipped level; levels [title, 2, 3, 2, 4] give two roots
\* with one child each (the level-3 and the level-4 heading).
C4_TocForestNesting ==
  tocPc = "done" =>
    /\ TocPreorder(toc) = [i \in 1..Len(TocSections) |-> TocSections[i].id]
    /\ TocParents(toc, <<>>) =
         {<<TocSections[i].id, NearestLower(TocSections, i)>> : i \in 1..Len(TocSections)}
    /\ tocHtml = TocExample =>
         /\ Len(toc) = 2
         /\ TocPreorder(toc[1].children) = <<SectionId(2)>>
         /\ TocPreorder(toc[2].children) = <<SectionId(4)>>

\* C4 witness: the example document has been built into its two-root forest
C4_Witness ==
  /\ tocPc = "done"
  /\ tocHtml = TocExample
  /\ Len(toc) = 2
  /\ Len(toc[1].children) = 1
  /\ Len(toc[2].children) = 1

\* C5: the three passes applied to their own output return that output
C5_NormalizerIdempotent ==
  normPc = "twice" => fixed2 = fixed

\* the text a copy of the listing holds: the text nodes and the text of the
\* elements, in order
PlainText(pre) == [i \in 1..Len(pre) |-> pre[i].s]
\* a callout left at the end of a line of the text
TrailingCallout(txt) ==
  \E i \in 1..Len(txt) :
    /\ txt[i] \in {"(1)", "<1>"}
    /\ \E j \in (i + 1)..(Len(txt) + 1) :
         /\ \A m \in (i + 1)..(j - 1) : txt[m] \in {" ", "\t", ""}
         /\ (j = Len(txt) + 1 \/ txt[j] = "\n")
DataMarkers(pre) == SelectSeq(pre, LAMBDA n : n.k = "conum" /\ n.data)

\* C6: after _strip_conum_from_code the text of a listing holds no callout
\* "(n)" or "<n>" at the end of a line, whichever way the marker was written,
\* and every .conum element with a data-value is still there, empty and
\* aria-hidden.
C6_ListingCopySafe ==
  (normPc \in {"once", "twice"} /\ normHtml[1].t = "listingblock") =>
    /\ ~TrailingCallout(PlainText(fixed[1].pre))
    /\ Len(DataMarkers(fixed[1].pre)) = Len(DataMarkers(normHtml[1].pre))
    /\ \A i \in 1..Len(fixed[1].pre) :
         (fixed[1].pre[i].k = "conum" /\ fixed[1].pre[i].data) =>
           (fixed[1].pre[i].s = "" /\ fixed[1].pre[i].aria)

\* the items the rows of a table give, in document order: a row with at
\* least two cells gives its second cell, and the rows of a table attached
\* inside a cell follow the row they are in
RECURSIVE ItemsOfRows(_)
RECURSIVE ItemsOfCells(_)
RECURSIVE ItemsOfMarkup(_)
ItemsOfRows(rows) ==
  IF rows = <<>> THEN <<>>
  ELSE (IF Len(Head(rows)) >= 2 THEN <<Head(rows)[2]>> ELSE <<>>)
         \o ItemsOfCells(Head(rows)) \o ItemsOfRows(Tail(rows))
ItemsOfCells(cells) ==
  IF cells = <<>> THEN <<>> ELSE ItemsOfMarkup(Head(cells)) \o ItemsOfCells(Tail(cells))
ItemsOfMarkup(m) ==
  IF m = <<>> THEN <<>>
  ELSE (IF Head(m).k = "table" THEN ItemsOfRows(Head(m).rows) ELSE <<>>)
         \o ItemsOfMarkup(Tail(m))
NoTableInside(rows) ==
  \A r \in 1..Len(rows) : \A c \in 1..Len(rows[r]) : \A i \in 1..Len(rows[r][c]) :
    rows[r][c][i].k # "table"
CalloutExample ==
  <<[t |-> "colist", children |->
       <<TableItem(<< <<<<TextItem("1")>>, <<TextItem("Install deps")>>>>,
                      <<<<TextItem("2")>>, <<TextItem("Run build")>>>> >>)>>]>>
IsCalloutTable(html) ==
  /\ html[1].t = "colist"
  /\ html[1].children[1].k = "table"
  /\ html[1].children[1].rows # <<>>

EntryMatches(c) ==
  /\ c.entry # <<>>
  /\ c.entry[1].mtime = c.mtime
  /\ c.entry[1].sha1 = c.sha1
\* whether a call returned the stored Rendered without running the renderer
ServedFromCache(c) ==
  /\ ~c.invoked
  /\ ~c.raised
  /\ c.entry # <<>>
  /\ c.rendered = <<c.entry[1].rendered>>

\* C1: a call returns the stored Rendered without invoking the renderer
\* exactly when an entry exists whose mtime and digest both equal the file's;
\* otherwise it renders and (unless the build is aborted) replaces the entry;
\* of two calls with no change of the file in between, the second does not
\* invoke the renderer and returns the Rendered of the first.
C1_CacheHitIffMtimeAndDigestMatch ==
  last # <<>> =>
    LET c == last[1]
    IN  /\ ServedFromCache(c) <=> EntryMatches(c)
        /\ ~EntryMatches(c) => c.invoked
        /\ EntryMatches(c) => cache[c.path] = c.entry
        /\ (~EntryMatches(c) /\ ~c.raised) =>
             cache[c.path] = <<Entry(c.mtime, c.sha1, c.rendered[1])>>
        /\ c.before # <<>> =>
             /\ ~c.invoked
             /\ c.rendered = c.before[1].rendered
             /\ c.before[1].entry = <<>> => c.before[1].invoked

\* C1 witness: a call that rendered into the empty cache is followed, with
\* the file unchanged, by a call served from the cache
C1_Witness ==
  /\ last # <<>>
  /\ last[1].before # <<>>
  /\ last[1].before[1].entry = <<>>
  /\ last[1].before[1].invoked
  /\ last[1].before[1].kind = "ok"
  /\ ~last[1].invoked
  /\ last[1].rendered = last[1].before[1].rendered

FailedRender(c) == c.invoked /\ c.kind # "ok"

\* C2 as stated: with fail_on_error false a failed render leaves the cache
\* entry of the path as it was, and the next call for the unchanged file
\* invokes the renderer again.
C2_FailedRenderNotStored ==
  (last # <<>> /\ ~fail) =>
    LET c == last[1]
    IN  /\ FailedRender(c) => cache[c.path] = c.entry
        /\ (c.before # <<>> /\ FailedRender(c.before[1])) => c.invoked

\* C2 amended: with fail_on_error false a failed render is stored like any
\* other: the placeholder (a pre block, empty meta) is the entry under the
\* file's mtime and digest, and the next call for the unchanged file returns
\* it without invoking the renderer; with fail_on_error true the call raises
\* and the cache is left as it was.
C2_FailedRenderStoredUnlessFatal ==
  last # <<>> =>
    LET c == last[1]
    IN  /\ (FailedRender(c) /\ fail) =>
             (c.raised /\ aborted /\ c.rendered = <<>> /\ cache[c.path] = c.entry)
        /\ (FailedRender(c) /\ ~fail) =>
             /\ ~c.raised
             /\ c.rendered[1].html[1].t = "pre"
             /\ c.rendered[1].meta = <<>>
             /\ cache[c.path] = <<Entry(c.mtime, c.sha1, c.rendered[1])>>
        /\ (c.before # <<>> /\ FailedRender(c.before[1])) =>
             (~c.invoked /\ c.rendered = c.before[1].rendered)

\* C2 witness: on_page_markdown got the placeholder of a missing renderer and
\* on_page_content, the file unchanged, was served it from the cache
C2_Witness ==
  /\ ~fail
  /\ last # <<>>
  /\ last[1].before # <<>>
  /\ last[1].before[1].invoked
  /\ last[1].before[1].kind = "FileNotFoundError"
  /\ ~last[1].invoked
  /\ page[last[1].path].stage = "content"
  /\ page[last[1].path].content = last[1].before[1].rendered[1].html

\* the text an escaped string stands for
RECURSIVE Unescape(_)
Unescape(s) ==
  IF s = <<>> THEN <<>>
  ELSE IF Len(s) >= 5 /\ SubSeq(s, 1, 5) = <<"&","a","m","p",";">>
       THEN <<"&">> \o Unescape(SubSeq(s, 6, Len(s)))
  ELSE IF Len(s) >= 4 /\ SubSeq(s, 1, 4) = <<"&","l","t",";">>
       THEN <<"<">> \o Unescape(SubSeq(s, 5, Len(s)))
  ELSE IF Len(s) >= 4 /\ SubSeq(s, 1, 4) = <<"&","g","t",";">>
       THEN <<">">> \o Unescape(SubSeq(s, 5, Len(s)))
  ELSE <<Head(s)>> \o Unescape(Tail(s))
RunMessage ==
  IF runOutcome.kind = "FileNotFoundError" THEN NotFoundMsg(runCmd)
  ELSE FailedMsg(RunSrc, runOutcome.stderr)

\* C3: for both failure kinds the flag alone decides: with fail_on_error the
\* call raises SystemExit and returns nothing; without it the call raises
\* nothing and returns a non-empty html fragment holding the escaped message
\* (no raw < or >, and the message when unescaped) and an empty meta mapping.
C3_FailureDecidedByFailOnError ==
  (runPc = "done" /\ runOutcome.kind # "ok") =>
    IF runFail
    THEN /\ runResult.raised
         /\ runResult.msg = RunMessage
         /\ runResult.html = <<>>
    ELSE /\ ~runResult.raised
         /\ Len(runResult.html) = 1
         /\ runResult.html[1].t = "pre"
         /\ runResult.html[1].s # <<>>
         /\ Range(runResult.html[1].s) \cap {"<", ">"} = {}
         /\ Unescape(runResult.html[1].s) = RunMessage
         /\ DOMAIN runResult.meta = {}

\* C3 witness: the renderer exited non-zero writing "<&", fail_on_error is
\* false, and the call returned the placeholder with the message escaped
C3_Witness ==
  /\ runPc = "done"
  /\ ~runFail
  /\ runOutcome = ProcFailed(<<"<", "&">>)
  /\ ~runResult.raised
  /\ runResult.html =
       <<PreBlock(<<"Asciidoctor failed for ", RunSrc, ":", "\n",
                    "&","l","t",";", "&","a","m","p",";">>)>>
  /\ runResult.meta = <<>>

HeadingIds(html) ==
  {html[i].id : i \in {j \in 1..Len(html) : IsHeading(html[j]) /\ html[j].id # <<>>}}

\* C10: once on_page_content has returned, every anchor id of page.toc is the
\* id of a heading of the returned body
C10_TocAnchorsInBody ==
  \A pg \in AdocPages :
    page[pg].stage = "content" =>
      Range(TocPreorder(page[pg].toc)) \subseteq HeadingIds(page[pg].content)

Reserved == {"partials", "snippets", "modules"}
UnderReserved(rel) == \E i \in 1..Len(rel.dirs) : rel.dirs[i] \in Reserved
TimesInFiles(rel) == Cardinality({i \in 1..Len(files) : files[i].src_path = rel})
Registered(rel) ==
  /\ rel \in adocPages
  /\ \E i \in 1..Len(files) : files[i].src_path = rel /\ files[i].is_documentation_page

\* C9: after on_files a file of the docs directory is registered as an
\* AsciiDoc page exactly when its name ends in .adoc and no directory of its
\* path is partials, snippets or modules; an .adoc file below such a
\* directory, at any depth, is not in the collection; a registered file is in
\* it once.
C9_AdocPagesOutsideReservedDirs ==
  filesPc = "done" =>
    \A rel \in docs :
      /\ Registered(rel) <=> (EndsWithAdoc(rel) /\ ~UnderReserved(rel))
      /\ (EndsWithAdoc(rel) /\ UnderReserved(rel)) => TimesInFiles(rel) = 0
      /\ Registered(rel) => TimesInFiles(rel) = 1

====
